---- MODULE Spec2Model ----
(***************************************************************************)
(* Model of newsletter-automation/src/tennis-news-article-scraper-summary.py *)
(*                                                                         *)
(* Python strings are sequences of one-character strings, so that strip,   *)
(* split, join, slicing and the \w+ tokenizer are computed character by    *)
(* character.  A Python value that may be None is a sequence of length at  *)
(* most one: <<>> is None and <<v>> is the value v.                         *)
(***************************************************************************)
EXTENDS Integers, Sequences, FiniteSets, TLC

VARIABLES
    urls,                 \* process_urls argument: list of URL strings
    custom_titles,        \* process_urls argument: None or a list of (None or string)
    pc,                   \* position of the control flow
    idx,                  \* 1-based position of the for loop in zip(urls, custom_titles)
    response,             \* outcome of requests.get in the current iteration
    article_details,      \* value returned by extract_article_content (None or dict)
    summarized_articles,  \* the result list of process_urls
    calls,                \* external calls issued so far, in order
    prompt,               \* last prompt handed to model.generate_content
    file_out,             \* contents written by save_to_mailchimp_format
    text,                 \* argument of a direct call of a function under test
    custom_title,         \* custom_title argument of a direct summarize_with_gemini call
    tokens,               \* number of word tokens the text was built from
    ret                   \* value returned by the direct call

vars == <<urls, custom_titles, pc, idx, response, article_details,
          summarized_articles, calls, prompt, file_out, text, custom_title, tokens, ret>>

----------------------------------------------------------------------------
(* Bounds of the model *)

MaxUrls == 3
MaxTitles == 2
MaxWords == 800
TextSlack == 3
MaxRecords == 2

(* Program constants *)

max_tokens == 10000
WordsPerMinute == 250
StatusOK == 200

----------------------------------------------------------------------------
(* Python values *)

PyNone == <<>>
Some(v) == <<v>>
IsNone(o) == Len(o) = 0
Get(o) == o[1]

Min(a, b) == IF a <= b THEN a ELSE b
Max(a, b) == IF a >= b THEN a ELSE b

NoTitle == <<"N", "o", " ", "T", "i", "t", "l", "e">>
SummarySentinel == <<"U", "n", "a", "b", "l", "e", " ", "t", "o", " ", "g", "e", "n", "e", "r", "a", "t", "e", " ", "s", "u", "m", "m", "a", "r", "y">>
TitleContextPrefix == <<"A", "r", "t", "i", "c", "l", "e", " ", "T", "i", "t", "l", "e", ":", " ">>
TitleLabel == <<"T", "i", "t", "l", "e", ":", " ">>
SummaryLabel == <<"S", "u", "m", "m", "a", "r", "y", ":", " ">>
ReadingTimeLabel == <<"R", "e", "a", "d", "i", "n", "g", " ", "T", "i", "m", "e", ":", " ">>
MinSuffix == <<" ", "m", "i", "n", "\n">>
FullArticleLabel == <<"F", "u", "l", "l", " ", "A", "r", "t", "i", "c", "l", "e", ":", " ">>
NoneText == <<"N", "o", "n", "e">>
Newline == <<"\n">>

\* Characters matched by \w: letters, digits and the underscore.
WordChars ==
    {"a", "b", "c", "d", "e", "f", "g", "h", "i", "j", "k", "l", "m", "n", "o", "p", "q",
     "r", "s", "t", "u", "v", "w", "x", "y", "z", "A", "B", "C", "D", "E", "F", "G", "H",
     "I", "J", "K", "L", "M", "N", "O", "P", "Q", "R", "S", "T", "U", "V", "W", "X", "Y",
     "Z", "0", "1", "2", "3", "4", "5", "6", "7", "8", "9", "_"}

\* Characters removed by str.strip().
Whitespace == {" ", "\t", "\n", "\r"}

\* s.strip()
Strip(s) ==
    IF \A k \in 1..Len(s) : s[k] \in Whitespace THEN <<>>
    ELSE LET lo == CHOOSE k \in 1..Len(s) :
                      s[k] \notin Whitespace /\ \A j \in 1..(k - 1) : s[j] \in Whitespace
             hi == CHOOSE k \in 1..Len(s) :
                      s[k] \notin Whitespace /\ \A j \in (k + 1)..Len(s) : s[j] \in Whitespace
         IN  SubSeq(s, lo, hi)

\* s[:n] for n >= 0
Slice(s, n) == SubSeq(s, 1, Min(Len(s), n))

\* s.split(sep) for a one-character separator
RECURSIVE Split(_, _)
Split(s, sep) ==
    LET hits == {k \in 1..Len(s) : s[k] = sep}
    IN  IF hits = {} THEN <<s>>
        ELSE LET k == CHOOSE h \in hits : \A j \in hits : h <= j
             IN  <<SubSeq(s, 1, k - 1)>> \o Split(SubSeq(s, k + 1, Len(s)), sep)

\* ' '.join(parts)
RECURSIVE Join(_)
Join(parts) ==
    IF Len(parts) = 0 THEN <<>>
    ELSE IF Len(parts) = 1 THEN parts[1]
    ELSE parts[1] \o <<" ">> \o Join(Tail(parts))

\* str(n) for an integer n >= 0
Digit(d) == <<"0", "1", "2", "3", "4", "5", "6", "7", "8", "9">>[d + 1]
RECURSIVE IntToStr(_)
IntToStr(n) == IF n < 10 THEN <<Digit(n)>> ELSE IntToStr(n \div 10) \o <<Digit(n % 10)>>

\* The text an f-string substitutes for an optional string.
Format(o) == IF IsNone(o) THEN NoneText ELSE Get(o)

\* zip(a, b): stops at the end of the shorter list
Zip(a, b) == [k \in 1..Min(Len(a), Len(b)) |-> <<a[k], b[k]>>]

\* Variant: the quotient is truncated instead of rounded.
PyRoundDown(num, den) == num \div den

\* round(num / den) for num >= 0, den > 0: Python 3 rounds an exact half to the
\* even neighbour.
PyRound(num, den) ==
    LET q == num \div den
        r == num % den
    IN  IF 2 * r < den THEN q
        ELSE IF 2 * r > den THEN q + 1
        ELSE IF q % 2 = 0 THEN q ELSE q + 1

----------------------------------------------------------------------------
(* estimate_reading_time *)

\* len(re.findall(r'\w+', text)): the number of maximal runs of word characters,
\* one per position where a run starts.
WordCount(t) ==
    Cardinality({k \in 1..Len(t) :
        t[k] \in WordChars /\ (k = 1 \/ t[k - 1] \notin WordChars)})

estimate_reading_time(t) == Max(1, PyRound(WordCount(t), WordsPerMinute))

----------------------------------------------------------------------------
(* extract_article_content *)

\* The paragraph texts kept by the list comprehension: stripped, empty ones dropped.
RECURSIVE Fragments(_)
Fragments(ps) ==
    IF Len(ps) = 0 THEN <<>>
    ELSE (IF Strip(ps[1]) = <<>> THEN <<>> ELSE <<Strip(ps[1])>>) \o Fragments(Tail(ps))

\* Variant: no default title.
ExtractTitleNoDefault(h1) == IF IsNone(h1) THEN PyNone ELSE Some(Strip(Get(h1)))

ExtractTitle(h1) == IF IsNone(h1) THEN Some(NoTitle) ELSE Some(Strip(Get(h1)))

StatusFails(status) == status # StatusOK

\* resp is what requests.get did: raised, or returned a status and a page of which
\* h1 is the first h1 element's text (None without one) and paragraphs the texts of
\* the p and article elements.  The result is None or the dict.
extract_article_content(url, resp) ==
    IF resp.kind = "raise" THEN PyNone
    ELSE IF StatusFails(resp.status) THEN PyNone
    ELSE LET title == ExtractTitle(resp.h1)
             body == Join(Fragments(resp.paragraphs))
             parts == Split(url, "/")
         IN  IF body = <<>> THEN PyNone
             ELSE IF Len(parts) < 3 THEN PyNone
             ELSE Some([url |-> url,
                        title |-> title,
                        text |-> body,
                        reading_time |-> estimate_reading_time(body),
                        source |-> Some(parts[3])])

----------------------------------------------------------------------------
(* summarize_with_gemini *)

\* Variant: the text is sent whole.
TruncateNothing(article_text) == article_text

Truncate(article_text) == Slice(article_text, max_tokens)

Truthy(o) == ~IsNone(o) /\ Len(Get(o)) > 0

TitleContext(ct) == IF Truthy(ct) THEN TitleContextPrefix \o Get(ct) ELSE <<>>

\* The variable parts of the prompt; the instruction and the example between them
\* are fixed text.
BuildPrompt(article_text, ct) ==
    [title_context |-> TitleContext(ct), article_text |-> Truncate(article_text)]

\* gen is what model.generate_content and response.text did: returned a text, or
\* raised (API error, timeout, or a response with no text part).
summarize_with_gemini(article_text, ct, gen) ==
    IF gen.kind = "text" THEN Some(gen.text) ELSE Some(SummarySentinel)

----------------------------------------------------------------------------
(* save_to_mailchimp_format *)

\* Variant: no blank line after a stanza.
StanzaNoBlankLine(article) ==
    TitleLabel \o Format(article.title) \o Newline
    \o SummaryLabel \o Format(article.summary) \o Newline
    \o ReadingTimeLabel \o IntToStr(article.reading_time) \o MinSuffix
    \o FullArticleLabel \o article.url \o Newline

Stanza(article) ==
    TitleLabel \o Format(article.title) \o Newline
    \o SummaryLabel \o Format(article.summary) \o Newline
    \o ReadingTimeLabel \o IntToStr(article.reading_time) \o MinSuffix
    \o FullArticleLabel \o article.url \o Newline \o Newline

RECURSIVE save_to_mailchimp_format(_)
save_to_mailchimp_format(articles) ==
    IF Len(articles) = 0 THEN <<>>
    ELSE Stanza(articles[1]) \o save_to_mailchimp_format(Tail(articles))

----------------------------------------------------------------------------
(* Inputs and outcomes of the external calls *)

UrlA == <<"h", "t", "t", "p", "s", ":", "/", "/", "a", ".", "u", "k", "/", "x">>
UrlB == <<"h", "t", "t", "p", ":", "/", "/", "b", ".", "c", "o", "m", "/", "y", "/", "z">>
URLS == {UrlA, UrlB}

CustomTitleChoices == {PyNone, Some(<<>>), Some(<<"C", "T">>)}

\* The custom titles paired with URLs in process_urls runs.
PairedTitleChoices == {PyNone, Some(<<"C", "T">>)}

SeqsUpTo(S, n) == UNION {[1..k -> S] : k \in 0..n}

\* A text of n one-letter words, each followed by the separator sep.
WordsText(n, sep) ==
    [k \in 1..(n * (1 + Len(sep))) |->
        LET r == (k - 1) % (1 + Len(sep)) IN IF r = 0 THEN "w" ELSE sep[r]]

Raised == [kind |-> "raise", status |-> 0, h1 |-> PyNone, paragraphs |-> <<>>]
Page(status, h1, paragraphs) ==
    [kind |-> "response", status |-> status, h1 |-> h1, paragraphs |-> paragraphs]

Responses ==
    {Raised,
     Page(404, Some(<<"T">>), <<<<"a">>>>),
     Page(203, Some(<<"T">>), <<<<"a">>>>),
     Page(200, Some(<<"T">>), <<>>),
     Page(200, Some(<<"T">>), <<<<" ", "\n">>>>),
     Page(200, PyNone, <<<<"a", " ", "b">>>>),
     Page(200, Some(<<" ", "T", "\n">>), <<<<" ", " ">>, <<" ", "a", ".", "b", " ">>, <<"c">>>>)}

NoResponse == [kind |-> "none", status |-> 0, h1 |-> PyNone, paragraphs |-> <<>>]

GenOutcomes ==
    {[kind |-> "text", text |-> <<"O", "k">>],
     [kind |-> "raise", text |-> <<>>]}

NoPrompt == [title_context |-> <<>>, article_text |-> <<>>]

----------------------------------------------------------------------------
(* process_urls, one step per external call *)

\* The pairs the for loop iterates over.
Pairs == Zip(urls, Get(custom_titles))

\* article_details['summary'] = summary
WithSummary(details, summary) ==
    [k \in DOMAIN details \cup {"summary"} |->
        IF k = "summary" THEN summary ELSE details[k]]

\* Variant: the custom title is looked up by the number of records produced so far.
PairedTitleBySuccess(k) == Get(custom_titles)[Len(summarized_articles) + 1]

\* The custom_title the for loop binds in iteration k.
PairedTitle(k) == Pairs[k][2]

\* Variant: the record is put at the front of the list.
PrependArticle(articles, article) == <<article>> \o articles

\* summarized_articles.append(article_details)
AppendArticle(articles, article) == Append(articles, article)

Init ==
    /\ urls \in SeqsUpTo(URLS, MaxUrls)
    /\ custom_titles \in {PyNone} \cup {Some(l) : l \in SeqsUpTo(PairedTitleChoices, MaxTitles)}
    /\ pc = "start"
    /\ idx = 1
    /\ response = NoResponse
    /\ article_details = PyNone
    /\ summarized_articles = <<>>
    /\ calls = <<>>
    /\ prompt = NoPrompt
    /\ file_out = PyNone
    /\ text = <<>>
    /\ custom_title = PyNone
    /\ tokens = 0
    /\ ret = PyNone

\* Lines 133-137: the empty result list and the default for custom_titles.
ProcessUrlsEnter ==
    /\ pc = "start"
    /\ summarized_articles' = <<>>
    /\ custom_titles' = IF IsNone(custom_titles)
                          THEN Some([k \in 1..Len(urls) |-> PyNone])
                          ELSE custom_titles
    /\ idx' = 1
    /\ pc' = "loop"
    /\ UNCHANGED <<urls, response, article_details, calls, prompt, file_out,
                   text, custom_title, tokens, ret>>

\* Lines 139-141: the next pair of the zip, and extract_article_content on its URL.
ProcessUrlsExtract ==
    /\ pc = "loop"
    /\ idx <= Len(Pairs)
    /\ \E resp \in Responses :
          LET details == extract_article_content(Pairs[idx][1], resp)
          IN  /\ response' = resp
              /\ article_details' = details
              /\ calls' = Append(calls, [op |-> "GET", idx |-> idx,
                                         url |-> Pairs[idx][1], ok |-> ~IsNone(details)])
    /\ pc' = "extracted"
    /\ UNCHANGED <<urls, custom_titles, idx, summarized_articles, prompt, file_out,
                   text, custom_title, tokens, ret>>

\* Line 143
HasContent(details) == ~IsNone(details) /\ Len(Get(details).text) > 0

\* Lines 143-149: summarize, attach the summary, append the record.
ProcessUrlsSummarize ==
    /\ pc = "extracted"
    /\ HasContent(article_details)
    /\ \E gen \in GenOutcomes :
          LET details == Get(article_details)
              ct == PairedTitle(idx)
              summary == summarize_with_gemini(details.text, ct, gen)
          IN  /\ prompt' = BuildPrompt(details.text, ct)
              /\ calls' = Append(calls, [op |-> "GEN", idx |-> idx,
                                         url |-> Pairs[idx][1], ok |-> gen.kind = "text"])
              /\ summarized_articles' =
                    AppendArticle(summarized_articles, WithSummary(details, summary))
    /\ idx' = idx + 1
    /\ pc' = "loop"
    /\ UNCHANGED <<urls, custom_titles, response, article_details, file_out,
                   text, custom_title, tokens, ret>>

\* Variant: a URL that yielded nothing is tried again.
ProcessUrlsSkipRetry ==
    /\ pc = "extracted"
    /\ ~HasContent(article_details)
    /\ pc' = "loop"
    /\ UNCHANGED <<urls, custom_titles, idx, response, article_details,
                   summarized_articles, calls, prompt, file_out, text, custom_title,
                   tokens, ret>>

\* Lines 150-151: nothing extracted, the URL is skipped.
ProcessUrlsSkip ==
    /\ pc = "extracted"
    /\ ~HasContent(article_details)
    /\ idx' = idx + 1
    /\ pc' = "loop"
    /\ UNCHANGED <<urls, custom_titles, response, article_details, summarized_articles,
                   calls, prompt, file_out, text, custom_title, tokens, ret>>

\* Line 153: the zip is exhausted.
ProcessUrlsReturn ==
    /\ pc = "loop"
    /\ idx > Len(Pairs)
    /\ pc' = "done"
    /\ UNCHANGED <<urls, custom_titles, idx, response, article_details,
                   summarized_articles, calls, prompt, file_out, text, custom_title, tokens, ret>>

\* Lines 162-167: the result list is written out.
SaveToMailchimpFormat ==
    /\ pc = "done"
    /\ file_out' = Some(save_to_mailchimp_format(summarized_articles))
    /\ pc' = "saved"
    /\ UNCHANGED <<urls, custom_titles, idx, response, article_details,
                   summarized_articles, calls, prompt, text, custom_title, tokens, ret>>

Next ==
    \/ ProcessUrlsEnter
    \/ ProcessUrlsExtract
    \/ ProcessUrlsSummarize
    \/ ProcessUrlsSkip
    \/ ProcessUrlsReturn
    \/ SaveToMailchimpFormat

Spec == Init /\ [][Next]_vars

----------------------------------------------------------------------------
(* estimate_reading_time called on its own *)

Separators == {<<" ">>, <<".", "\n">>}

InitReadingTime ==
    /\ \E n \in 0..MaxWords : \E sep \in Separators :
          /\ tokens = n
          /\ text = WordsText(n, sep)
    /\ pc = "call"
    /\ urls = <<>>
    /\ custom_titles = PyNone
    /\ idx = 1
    /\ response = NoResponse
    /\ article_details = PyNone
    /\ summarized_articles = <<>>
    /\ calls = <<>>
    /\ prompt = NoPrompt
    /\ file_out = PyNone
    /\ custom_title = PyNone
    /\ ret = PyNone

EstimateReadingTime ==
    /\ pc = "call"
    /\ ret' = Some(estimate_reading_time(text))
    /\ pc' = "returned"
    /\ UNCHANGED <<urls, custom_titles, idx, response, article_details,
                   summarized_articles, calls, prompt, file_out, text, custom_title,
                   tokens>>

NextReadingTime == EstimateReadingTime

SpecReadingTime == InitReadingTime /\ [][NextReadingTime]_vars

----------------------------------------------------------------------------
(* summarize_with_gemini called on its own, on texts around the truncation length *)

\* A text of n characters in which neighbouring positions differ.
PatternText(n, pattern) == [k \in 1..n |-> pattern[((k - 1) % Len(pattern)) + 1]]

Patterns == {<<"a", "b", " ">>, <<"x", "y">>}

TextLengths == (0..TextSlack) \cup ((max_tokens - TextSlack)..(max_tokens + TextSlack))

InitSummarize ==
    /\ \E n \in TextLengths : \E pattern \in Patterns : text = PatternText(n, pattern)
    /\ custom_title \in CustomTitleChoices
    /\ pc = "call"
    /\ urls = <<>>
    /\ custom_titles = PyNone
    /\ idx = 1
    /\ response = NoResponse
    /\ article_details = PyNone
    /\ summarized_articles = <<>>
    /\ calls = <<>>
    /\ prompt = NoPrompt
    /\ file_out = PyNone
    /\ tokens = 0
    /\ ret = PyNone

SummarizeWithGemini ==
    /\ pc = "call"
    /\ \E gen \in GenOutcomes :
          /\ prompt' = BuildPrompt(text, custom_title)
          /\ ret' = summarize_with_gemini(text, custom_title, gen)
    /\ pc' = "returned"
    /\ UNCHANGED <<urls, custom_titles, idx, response, article_details,
                   summarized_articles, calls, file_out, text, custom_title, tokens>>

NextSummarize == SummarizeWithGemini

SpecSummarize == InitSummarize /\ [][NextSummarize]_vars

----------------------------------------------------------------------------
(* save_to_mailchimp_format called on its own, on any list of complete records *)

\* The titles and summaries of the records: a page title with a generated summary,
\* and the default title with the failure sentinel.
TitleSummaryChoices == {<<<<"T">>, <<"O", "k">>>>, <<NoTitle, SummarySentinel>>}

ArticleRecords ==
    {[url |-> u, title |-> Some(ts[1]), text |-> <<"a">>, reading_time |-> rt,
      source |-> Some(Split(u, "/")[3]), summary |-> Some(ts[2])] :
        u \in URLS, ts \in TitleSummaryChoices, rt \in {1, 2, 12}}

InitSave ==
    /\ summarized_articles \in SeqsUpTo(ArticleRecords, MaxRecords)
    /\ pc = "done"
    /\ urls = <<>>
    /\ custom_titles = PyNone
    /\ idx = 1
    /\ response = NoResponse
    /\ article_details = PyNone
    /\ calls = <<>>
    /\ prompt = NoPrompt
    /\ file_out = PyNone
    /\ text = <<>>
    /\ custom_title = PyNone
    /\ tokens = 0
    /\ ret = PyNone

NextSave == SaveToMailchimpFormat

SpecSave == InitSave /\ [][NextSave]_vars

----------------------------------------------------------------------------
(* Properties of process_urls *)

Finished == pc \in {"done", "saved"}

\* The calls of one kind, in the order they were issued.
CallsOf(op) == SelectSeq(calls, LAMBDA c : c.op = op)

\* Positions of the URL list whose extraction was carried out and returned a record.
SucceededIdx == {calls[c].idx : c \in {d \in 1..Len(calls) : calls[d].op = "GET" /\ calls[d].ok}}

\* The j-th smallest element of the set S of numbers.
Nth(S, j) == CHOOSE k \in S : Cardinality({m \in S : m <= k}) = j

\* C1: when process_urls returns, its result holds one record per URL whose
\* extraction succeeded and none for any other, in the order of the URL list.
C1_ResultIsSuccessSubsequence ==
    Finished =>
        /\ Len(summarized_articles) = Cardinality(SucceededIdx)
        /\ \A j \in 1..Len(summarized_articles) :
              summarized_articles[j].url = urls[Nth(SucceededIdx, j)]

\* Three URLs, the second of which fails: the records of the first and the third.
C1_Witness ==
    /\ pc = "done"
    /\ Len(urls) = 3
    /\ urls[1] # urls[3]
    /\ SucceededIdx = {1, 3}
    /\ Len(summarized_articles) = 2
    /\ summarized_articles[1].url = urls[1]
    /\ summarized_articles[2].url = urls[3]

\* C2: when process_urls returns, every URL of the input list has been passed to
\* extract_article_content exactly once, in input order, whatever custom_titles was.
C2_EveryUrlExtractedOnce ==
    Finished =>
        /\ Len(CallsOf("GET")) = Len(urls)
        /\ \A k \in 1..Len(CallsOf("GET")) :
              CallsOf("GET")[k].idx = k /\ CallsOf("GET")[k].url = urls[k]

\* The failure cases of an extraction: a transport error, a status outside 200..299,
\* or no paragraph with anything but whitespace in it.
FetchFailed(resp) ==
    \/ resp.kind = "raise"
    \/ resp.status \notin 200..299
    \/ \A k \in 1..Len(resp.paragraphs) :
          \A j \in 1..Len(resp.paragraphs[k]) : resp.paragraphs[k][j] \in Whitespace

\* C3: extract_article_content returns no record exactly when the fetch raised,
\* returned a non-2xx status or yielded empty body text; with any 2xx status and
\* non-empty body text it returns a record.
C3_NoRecordExactlyOnFailure ==
    pc = "extracted" => (IsNone(article_details) <=> FetchFailed(response))

\* The number of text-generation calls among the first c calls.
GensUpTo(c) == Cardinality({d \in 1..c : calls[d].op = "GEN"})

\* C4: when the text-generation call fails for a URL, the record of that URL is
\* in the result with the sentinel as its summary, and every URL after it in the
\* list has been processed when the run returns.
C4_SummaryFailureKeepsRecordAndBatch ==
    Finished =>
        \A c \in 1..Len(calls) :
            (calls[c].op = "GEN" /\ ~calls[c].ok) =>
                /\ GensUpTo(c) <= Len(summarized_articles)
                /\ summarized_articles[GensUpTo(c)].url = calls[c].url
                /\ summarized_articles[GensUpTo(c)].summary = Some(SummarySentinel)
                /\ \A k \in (calls[c].idx + 1)..Len(urls) :
                      \E d \in 1..Len(calls) : calls[d].op = "GET" /\ calls[d].idx = k

\* C5: at every point of a run every record of the result list has non-empty text,
\* a title and a source that are not None, a reading time of at least 1, and a
\* summary field holding a string.
C5_RecordsAreComplete ==
    \A k \in 1..Len(summarized_articles) :
        /\ Len(summarized_articles[k].text) > 0
        /\ ~IsNone(summarized_articles[k].title)
        /\ ~IsNone(summarized_articles[k].source)
        /\ summarized_articles[k].reading_time >= 1
        /\ "summary" \in DOMAIN summarized_articles[k]
        /\ ~IsNone(summarized_articles[k].summary)

\* A saved result with a record of a page without heading and a record whose
\* summary is the sentinel.
C5_Witness ==
    /\ pc = "saved"
    /\ \E k \in 1..Len(summarized_articles) : summarized_articles[k].title = Some(NoTitle)
    /\ \E k \in 1..Len(summarized_articles) :
          summarized_articles[k].summary = Some(SummarySentinel)
    /\ \E k \in 1..Len(summarized_articles) :
          summarized_articles[k].summary = Some(<<"O", "k">>)

\* C9: no position of the URL list gets more than one GET or more than one
\* text-generation call; a text-generation call directly follows the GET of its own
\* URL, which returned a record; positions are visited in increasing order.
C9_NoRetryFixedOrder ==
    /\ \A c, d \in 1..Len(calls) :
          (c # d /\ calls[c].op = calls[d].op) => calls[c].idx # calls[d].idx
    /\ \A c \in 1..Len(calls) :
          calls[c].op = "GEN" =>
              /\ c > 1
              /\ calls[c - 1].op = "GET"
              /\ calls[c - 1].idx = calls[c].idx
              /\ calls[c - 1].ok
    /\ \A c, d \in 1..Len(calls) : c < d => calls[c].idx <= calls[d].idx

\* A finished run with a failed extraction and two text-generation calls.
C9_Witness ==
    /\ pc = "done"
    /\ \E c \in 1..Len(calls) : calls[c].op = "GET" /\ ~calls[c].ok
    /\ Len(CallsOf("GEN")) = 2
    /\ Len(CallsOf("GET")) = 3

\* The state right after the record of position Last(calls).idx was appended.
JustAppended == pc = "loop" /\ Len(calls) > 0 /\ calls[Len(calls)].op = "GEN"

\* C10: the title of a record is the one extraction produced (the stripped text of
\* the first heading, "No Title" without one), with or without a custom title; the
\* prompt for position i carries the custom title of position i.
C10_CustomTitleOnlyInPrompt ==
    JustAppended =>
        LET k == calls[Len(calls)].idx
            ct == Get(custom_titles)[k]
            record == summarized_articles[Len(summarized_articles)]
        IN  /\ record.title = IF IsNone(response.h1) THEN Some(NoTitle)
                              ELSE Some(Strip(Get(response.h1)))
            /\ prompt.title_context = IF IsNone(ct) \/ Get(ct) = <<>> THEN <<>>
                                      ELSE TitleContextPrefix \o Get(ct)

\* The first URL was skipped; the second, paired with a custom title, got a record
\* titled by its page and a prompt carrying its custom title.
C10_Witness ==
    /\ JustAppended
    /\ calls[Len(calls)].idx = 2
    /\ ~calls[1].ok
    /\ IsNone(Get(custom_titles)[1])
    /\ Get(custom_titles)[2] = Some(<<"C", "T">>)
    /\ summarized_articles[1].title = Some(<<"T">>)
    /\ prompt.title_context = TitleContextPrefix \o <<"C", "T">>

----------------------------------------------------------------------------
(* Properties of estimate_reading_time (checked under SpecReadingTime) *)

\* C6 as stated, an exact half rounded up as in everyday rounding:
\* estimate_reading_time returns max(1, floor(n/250 + 1/2)) for n word tokens.
C6_RoundsHalfUp ==
    pc = "returned" => Get(ret) = Max(1, (2 * tokens + 250) \div 500)

\* C6 amended: estimate_reading_time returns max(1, q) for n word tokens, where q
\* is an integer nearest to n/250 and, when n/250 lies exactly between two integers,
\* the even one; it returns 1 for 0, 1 for 250 and 3 for 751 tokens, never below 1.
C6_RoundsHalfToEven ==
    pc = "returned" =>
        /\ Get(ret) >= 1
        /\ \E q \in 0..(tokens \div 250 + 1) :
              /\ 2 * (250 * q - tokens) <= 250
              /\ 2 * (tokens - 250 * q) <= 250
              /\ (2 * (250 * q - tokens) = 250 \/ 2 * (tokens - 250 * q) = 250) => q % 2 = 0
              /\ Get(ret) = Max(1, q)
        /\ tokens \in {0, 125, 250} => Get(ret) = 1
        /\ tokens = 375 => Get(ret) = 2
        /\ tokens = 625 => Get(ret) = 2
        /\ tokens = 751 => Get(ret) = 3

\* 625 tokens are 2.5 minutes: the result is 2.
C6_Witness == pc = "returned" /\ tokens = 625 /\ Get(ret) = 2

----------------------------------------------------------------------------
(* Properties of summarize_with_gemini (checked under SpecSummarize) *)

\* C7: the article text in the prompt is the first min(len(text), 10000) characters
\* of the input text.
C7_PromptHoldsFirstTenThousand ==
    pc = "returned" =>
        /\ Len(prompt.article_text) = Min(Len(text), 10000)
        /\ \A k \in 1..Len(prompt.article_text) : prompt.article_text[k] = text[k]

\* A text of more than 10,000 characters was cut to 10,000.
C7_Witness ==
    /\ pc = "returned"
    /\ Len(text) = 10002
    /\ Len(prompt.article_text) = 10000
    /\ prompt.article_text[10000] = text[10000]

----------------------------------------------------------------------------
(* Properties of save_to_mailchimp_format (checked under SpecSave) *)

\* The lines of the file written.
FileLines == Split(Get(file_out), "\n")

\* "Title: T", "Summary: Ok", "Reading Time: 2 min", "Full Article: https://a.uk/x"
\* and a blank line.
ExampleStanza ==
    <<"T", "i", "t", "l", "e", ":", " ", "T", "\n",
      "S", "u", "m", "m", "a", "r", "y", ":", " ", "O", "k", "\n",
      "R", "e", "a", "d", "i", "n", "g", " ", "T", "i", "m", "e", ":", " ", "2", " ", "m", "i", "n", "\n",
      "F", "u", "l", "l", " ", "A", "r", "t", "i", "c", "l", "e", ":", " ",
      "h", "t", "t", "p", "s", ":", "/", "/", "a", ".", "u", "k", "/", "x", "\n",
      "\n">>

ExampleRecord ==
    [url |-> UrlA, title |-> Some(<<"T">>), text |-> <<"a">>, reading_time |-> 2,
     source |-> Some(<<"a", ".", "u", "k">>), summary |-> Some(<<"O", "k">>)]

StanzasWritten ==
    pc = "saved" =>
        /\ Len(FileLines) = 5 * Len(summarized_articles) + 1
        /\ FileLines[Len(FileLines)] = <<>>
        /\ \A k \in 1..Len(summarized_articles) :
              LET article == summarized_articles[k]
                  at == 5 * (k - 1)
              IN  /\ FileLines[at + 1] = <<"T", "i", "t", "l", "e", ":", " ">> \o Get(article.title)
                  /\ FileLines[at + 2] =
                        <<"S", "u", "m", "m", "a", "r", "y", ":", " ">> \o Get(article.summary)
                  /\ FileLines[at + 3] =
                        <<"R", "e", "a", "d", "i", "n", "g", " ", "T", "i", "m", "e", ":", " ">>
                        \o (IF article.reading_time = 1 THEN <<"1">>
                            ELSE IF article.reading_time = 2 THEN <<"2">> ELSE <<"1", "2">>)
                        \o <<" ", "m", "i", "n">>
                  /\ FileLines[at + 4] =
                        <<"F", "u", "l", "l", " ", "A", "r", "t", "i", "c", "l", "e", ":", " ">>
                        \o article.url
                  /\ FileLines[at + 5] = <<>>
        /\ summarized_articles = <<ExampleRecord>> => Get(file_out) = ExampleStanza

\* C8: the file holds one stanza per record, in order, each the four lines and a
\* blank line; writing it leaves the records as they were.
C8_OneStanzaPerRecord ==
    /\ []StanzasWritten
    /\ [][pc' = "saved" => summarized_articles' = summarized_articles]_vars

\* Two different records were written.
C8_Witness ==
    /\ pc = "saved"
    /\ Len(summarized_articles) = 2
    /\ summarized_articles[1] = ExampleRecord
    /\ summarized_articles[2].reading_time = 12
    /\ Len(FileLines) = 11

====
